---- MODULE Spec2Model ----
(***************************************************************************)
(* Model of code2llm.py: one run of main() walks the target directory,     *)
(* builds the annotated TreeNode tree, collects the eligible files and     *)
(* writes the Markdown document.  Paths are sequences of component names;  *)
(* the filesystem maps the paths of its entries to directories, regular    *)
(* files and symbolic links.                                               *)
(***************************************************************************)
EXTENDS Integers, Sequences, FiniteSets, TLC

VARIABLES fs, fs0, cfg, pc, ignore_spec, tree_root, included_files,
          pending, out_file, skipped, run, docs

vars == <<fs, fs0, cfg, pc, ignore_spec, tree_root, included_files,
          pending, out_file, skipped, run, docs>>

----------------------------------------------------------------------------
(* Bounds of the model *)

\* number of successive invocations of main() with the same arguments
MaxRuns == 2

\* number of symbolic links the operating system follows while resolving one
\* path before it answers ELOOP
SymlinkLimit == 2

----------------------------------------------------------------------------
(* Names and their characters (str comparison is by code point) *)

NameChars ==
  "t" :> <<116>> @@
  "a.py" :> <<97, 46, 112, 121>> @@
  "b.py" :> <<98, 46, 112, 121>> @@
  "secret.txt" :> <<115, 101, 99, 114, 101, 116, 46, 116, 120, 116>> @@
  ".context.ignore" :> <<46, 99, 111, 110, 116, 101, 120, 116, 46, 105, 103, 110, 111, 114, 101>> @@
  "sub" :> <<115, 117, 98>> @@
  "a.txt" :> <<97, 46, 116, 120, 116>> @@
  "b.txt" :> <<98, 46, 116, 120, 116>> @@
  "lnk" :> <<108, 110, 107>> @@
  "ext" :> <<101, 120, 116>> @@
  "e.txt" :> <<101, 46, 116, 120, 116>> @@
  "context.md" :> <<99, 111, 110, 116, 101, 120, 116, 46, 109, 100>> @@
  "ctx.md" :> <<99, 116, 120, 46, 109, 100>> @@
  "missing.md" :> <<109, 105, 115, 115, 105, 110, 103, 46, 109, 100>>

\* lexicographic order of two sequences of integers (Python's str / list <)
RECURSIVE SeqLess(_, _)
SeqLess(a, b) ==
  IF b = <<>> THEN FALSE
  ELSE IF a = <<>> THEN TRUE
  ELSE IF Head(a) # Head(b) THEN Head(a) < Head(b)
  ELSE SeqLess(Tail(a), Tail(b))

StrLess(m, n) == SeqLess(NameChars[m], NameChars[n])

\* order of two pathlib paths: the lists of their parts are compared
RECURSIVE PathLess(_, _)
PathLess(p, q) ==
  IF q = <<>> THEN FALSE
  ELSE IF p = <<>> THEN TRUE
  ELSE IF Head(p) # Head(q) THEN StrLess(Head(p), Head(q))
  ELSE PathLess(Tail(p), Tail(q))

\* sorted(): insertion of x into an ascending sequence, then the whole sort
RECURSIVE InsertPath(_, _)
InsertPath(x, s) ==
  IF s = <<>> THEN <<x>>
  ELSE IF PathLess(x, Head(s)) THEN <<x>> \o s
  ELSE <<Head(s)>> \o InsertPath(x, Tail(s))

RECURSIVE SortPaths(_)
SortPaths(s) ==
  IF s = <<>> THEN <<>> ELSE InsertPath(Head(s), SortPaths(Tail(s)))

\* index of the last '.' (code 46) of a name, 0 when there is none
RECURSIVE RFindDot(_, _)
RFindDot(cs, i) ==
  IF i = 0 THEN 0 ELSE IF cs[i] = 46 THEN i ELSE RFindDot(cs, i - 1)

\* path.suffix.lstrip('.'): the characters after the last dot of the name,
\* empty when the dot is the first or the last character or is missing
Suffix(name) ==
  LET cs == NameChars[name]
      i  == RFindDot(cs, Len(cs))
  IN IF i > 1 /\ i < Len(cs) THEN SubSeq(cs, i + 1, Len(cs)) ELSE <<>>

----------------------------------------------------------------------------
(* File contents *)

\* the text of a file: an identifier of its bytes, their number, whether they
\* decode as UTF-8, and (for a document written by the tool) its chunks
Text(id, size, utf8) == [id |-> id, size |-> size, utf8 |-> utf8, doc |-> <<>>]

NoText == Text("", 0, TRUE)

Dir == [kind |-> "dir", to |-> <<>>, content |-> NoText]
File(c) == [kind |-> "file", to |-> <<>>, content |-> c]
Link(p) == [kind |-> "link", to |-> p, content |-> NoText]

\* lines of the ignore-rules files, by text identifier; each line is what the
\* gitwildmatch factory makes of it
Pat(kind, name) == [kind |-> kind, name |-> name]

IgnoreLines ==
  "IGN_SECRET" :> <<Pat("name", "secret.txt")>> @@
  "IGN_DIR"    :> <<Pat("dir", "sub")>> @@
  "IGN_NEG"    :> <<Pat("comment", ""), Pat("blank", ""), Pat("name", "sub"),
                    Pat("neg", "a.txt"), Pat("name", "b.py")>> @@
  "IGN_BAD"    :> <<Pat("name", "secret.txt"), Pat("invalid", "")>>

IgnoreSize ==
  "IGN_SECRET" :> 11 @@ "IGN_DIR" :> 5 @@ "IGN_NEG" :> 26 @@ "IGN_BAD" :> 13

----------------------------------------------------------------------------
(* The operating system's view of a filesystem f *)

target_dir == <<"t">>

\* resolution of a lexical path: cur is the real directory reached so far,
\* rest the components still to walk, hops the symbolic links followed
RECURSIVE ResolveFrom(_, _, _, _, _)
ResolveFrom(f, cur, rest, hops, followLast) ==
  IF rest = <<>> THEN [err |-> "ok", real |-> cur]
  ELSE LET next == Append(cur, Head(rest))
       IN IF next \notin DOMAIN f THEN [err |-> "ENOENT", real |-> <<>>]
          ELSE IF f[next].kind = "link" /\ (Tail(rest) # <<>> \/ followLast)
            THEN IF hops + 1 > SymlinkLimit
                   THEN [err |-> "ELOOP", real |-> <<>>]
                   ELSE ResolveFrom(f, <<>>, f[next].to \o Tail(rest),
                                    hops + 1, followLast)
          ELSE IF Tail(rest) # <<>> /\ f[next].kind # "dir"
            THEN [err |-> "ENOTDIR", real |-> <<>>]
          ELSE ResolveFrom(f, next, Tail(rest), hops, followLast)

Stat(f, p)  == ResolveFrom(f, <<>>, p, 0, TRUE)
LStat(f, p) == ResolveFrom(f, <<>>, p, 0, FALSE)

\* pathlib answers False when stat fails with ENOENT, ENOTDIR or ELOOP
exists(f, p)     == Stat(f, p).err = "ok"
is_dir(f, p)     == Stat(f, p).err = "ok" /\ f[Stat(f, p).real].kind = "dir"
is_file(f, p)    == Stat(f, p).err = "ok" /\ f[Stat(f, p).real].kind = "file"
is_symlink(f, p) == LStat(f, p).err = "ok" /\ f[LStat(f, p).real].kind = "link"
st_size(f, p)    == f[Stat(f, p).real].content.size

\* root.iterdir(): the names of the entries of the directory the path leads
\* to, in the order the filesystem lists them
iterdir(f, p, order) ==
  SelectSeq(order, LAMBDA n : Append(Stat(f, p).real, n) \in DOMAIN f)

relative_to(p, base) == SubSeq(p, Len(base) + 1, Len(p))

----------------------------------------------------------------------------
(* Pattern matcher (pathspec, gitwildmatch) *)

\* one pattern against a relative path: a bare name matches the entry of that
\* name at any level and everything below it, name/ only what lies below it
PatternHits(pat, rel) ==
  CASE pat.kind \in {"name", "neg"} ->
         \E i \in 1..Len(rel) : rel[i] = pat.name
    [] pat.kind = "dir" ->
         \E i \in 1..(Len(rel) - 1) : rel[i] = pat.name
    [] OTHER -> FALSE

\* match_file: the last pattern that hits decides, a negation re-includes
RECURSIVE MatchFrom(_, _, _)
MatchFrom(spec, rel, matched) ==
  IF spec = <<>> THEN matched
  ELSE MatchFrom(Tail(spec), rel,
                 IF PatternHits(Head(spec), rel)
                   THEN Head(spec).kind # "neg" ELSE matched)

match_file(spec, rel) == MatchFrom(spec, rel, FALSE)

----------------------------------------------------------------------------
(* Tree builder *)

TreeNode(name, isdir) ==
  [name |-> name, is_dir |-> isdir, children |-> <<>>,
   ignored |-> FALSE, size_exceeded |-> FALSE]

\* the size test of the builder: regular files only, strictly larger
SizeExceeded_Inclusive(f, entry, max_size) ==
  is_file(f, entry) /\ st_size(f, entry) >= max_size

SizeExceeded(f, entry, max_size) ==
  is_file(f, entry) /\ st_size(f, entry) > max_size

RECURSIVE build_directory_tree(_, _, _, _, _)
RECURSIVE BuildChildren(_, _, _, _, _, _)

\* the loop over root.iterdir(): one child per listed name, in that order
BuildChildren(f, root, names, spec, max_size, order) ==
  IF names = <<>> THEN <<>>
  ELSE LET entry == Append(root, Head(names))
           rel_path == relative_to(entry, target_dir)
           ignored == match_file(spec, rel_path)
           size_exceeded == SizeExceeded(f, entry, max_size)
           child ==
             IF is_dir(f, entry)
               THEN [build_directory_tree(f, entry, spec, max_size, order)
                       EXCEPT !.ignored = ignored]
               ELSE [TreeNode(Head(names), FALSE)
                       EXCEPT !.ignored = ignored,
                              !.size_exceeded = size_exceeded]
       IN <<child>> \o BuildChildren(f, root, Tail(names), spec, max_size, order)

build_directory_tree(f, root, spec, max_size, order) ==
  [TreeNode(root[Len(root)], TRUE)
     EXCEPT !.children = BuildChildren(f, root, iterdir(f, root, order),
                                       spec, max_size, order)]

----------------------------------------------------------------------------
(* Renderer of the tree *)

\* the key without is_dir: names only
KeyLess_NameOnly(x, y) == StrLess(x.name, y.name)

\* sort key (is_dir, name) of a node, compared as Python compares tuples
KeyLess(x, y) ==
  \/ ~x.is_dir /\ y.is_dir
  \/ x.is_dir = y.is_dir /\ StrLess(x.name, y.name)

\* sorted(children, key=..., reverse=True): descending, equal keys keep
\* their order
RECURSIVE InsertNode(_, _)
InsertNode(x, s) ==
  IF s = <<>> THEN <<x>>
  ELSE IF ~KeyLess(x, Head(s)) THEN <<x>> \o s
  ELSE <<Head(s)>> \o InsertNode(x, Tail(s))

RECURSIVE SortChildren(_)
SortChildren(s) ==
  IF s = <<>> THEN <<>> ELSE InsertNode(Head(s), SortChildren(Tail(s)))

\* the annotation of a node: the reasons between the parentheses
Reasons(node) ==
  IF node.ignored \/ (~node.is_dir /\ node.size_exceeded)
    THEN (IF node.ignored THEN <<"ignored">> ELSE <<>>)
         \o (IF node.size_exceeded THEN <<"size exceeded">> ELSE <<>>)
    ELSE <<>>

RECURSIVE format_tree(_, _, _)
RECURSIVE FormatChildren(_, _, _)

\* one line per node: the prefix of its ancestors ("bar" for a pending
\* ancestor, "blank" for a last one), its connector, marker, name, reasons
FormatChildren(children, new_prefix, i) ==
  IF i > Len(children) THEN <<>>
  ELSE format_tree(children[i], new_prefix, i = Len(children))
       \o FormatChildren(children, new_prefix, i + 1)

format_tree(node, prefix, is_last) ==
  LET line == [prefix |-> prefix, last |-> is_last, is_dir |-> node.is_dir,
               name |-> node.name, reasons |-> Reasons(node)]
  IN <<line>> \o
     (IF node.is_dir
        THEN FormatChildren(SortChildren(node.children),
                            Append(prefix, IF is_last THEN "blank" ELSE "bar"),
                            1)
        ELSE <<>>)

----------------------------------------------------------------------------
(* File collector *)

RECURSIVE rglob(_, _, _)
RECURSIVE WalkSubdirs(_, _, _, _)

\* the directories below dir that the ** part of the pattern enters: real
\* directories only, a symbolic link to a directory is not entered
WalkSubdirs(f, dir, names, order) ==
  IF names = <<>> THEN <<>>
  ELSE LET entry == Append(dir, Head(names))
       IN (IF is_dir(f, entry) /\ ~is_symlink(f, entry)
             THEN rglob(f, entry, order) ELSE <<>>)
          \o WalkSubdirs(f, dir, Tail(names), order)

\* target_dir.rglob('*'): every entry of dir, then those of its directories
rglob(f, dir, order) ==
  LET names == iterdir(f, dir, order)
  IN [i \in 1..Len(names) |-> Append(dir, names[i])]
     \o WalkSubdirs(f, dir, names, order)

\* the filter without its size test
Collectable_NoSizeFilter(f, spec, max_size, file_path) ==
  /\ ~(is_dir(f, file_path) \/ is_symlink(f, file_path))
  /\ ~match_file(spec, relative_to(file_path, target_dir))

\* the filter without its ignore test
Collectable_NoIgnoreFilter(f, spec, max_size, file_path) ==
  /\ ~(is_dir(f, file_path) \/ is_symlink(f, file_path))
  /\ ~(st_size(f, file_path) > max_size)

\* the filter without its symbolic link test
Collectable_NoSymlinkTest(f, spec, max_size, file_path) ==
  /\ ~is_dir(f, file_path)
  /\ ~match_file(spec, relative_to(file_path, target_dir))
  /\ ~(st_size(f, file_path) > max_size)

\* the filter of the collecting loop
Collectable(f, spec, max_size, file_path) ==
  /\ ~(is_dir(f, file_path) \/ is_symlink(f, file_path))
  /\ ~match_file(spec, relative_to(file_path, target_dir))
  /\ ~(st_size(f, file_path) > max_size)

Collect(f, spec, max_size, order) ==
  SelectSeq(rglob(f, target_dir, order),
            LAMBDA file_path : Collectable(f, spec, max_size, file_path))

----------------------------------------------------------------------------
(* The output document: a sequence of chunks, one per write *)

Chunk(tag) ==
  [tag |-> tag, path |-> <<>>, ext |-> <<>>, lines |-> <<>>, content |-> NoText]

ContextChunk(c) == [Chunk("context") EXCEPT !.content = c]
TreeChunk(lines) == [Chunk("structure") EXCEPT !.lines = lines]
ContentsHeader == Chunk("contents")
FileChunk(rel, ext, c) ==
  [Chunk("file") EXCEPT !.path = rel, !.ext = ext, !.content = c]

RECURSIVE SumLens(_)
SumLens(s) == IF s = <<>> THEN 0 ELSE Len(Head(s)) + SumLens(Tail(s))

\* bytes of str(rel_path): the names joined with '/'
PathBytes(rel) ==
  SumLens([i \in 1..Len(rel) |-> NameChars[rel[i]]]) + (Len(rel) - 1)

\* UTF-8 bytes of one line of the diagram
LineBytes(line) ==
  LET bars == Cardinality({i \in 1..Len(line.prefix) : line.prefix[i] = "bar"})
      note == IF line.reasons = <<>> THEN 0
              ELSE 2 + (IF "ignored" \in {line.reasons[i] : i \in 1..Len(line.reasons)}
                          THEN 7 ELSE 0)
                     + (IF "size exceeded" \in {line.reasons[i] : i \in 1..Len(line.reasons)}
                          THEN 13 ELSE 0)
                     + (IF Len(line.reasons) = 2 THEN 2 ELSE 0) + 1
  IN 6 * bars + 4 * (Len(line.prefix) - bars) + 10 + 5
     + Len(NameChars[line.name]) + note + 1

RECURSIVE SumLines(_)
SumLines(ls) ==
  IF ls = <<>> THEN 0 ELSE LineBytes(Head(ls)) + SumLines(Tail(ls))

\* bytes of what one chunk writes to the output
ChunkBytes(ch) ==
  CASE ch.tag = "context"   -> 20 + ch.content.size + 2
    [] ch.tag = "structure" -> 22 + 4 + SumLines(ch.lines) + 5
    [] ch.tag = "contents"  -> 17
    [] ch.tag = "file"      -> (9 + PathBytes(ch.path) + 1) + (3 + Len(ch.ext) + 1)
                               + (ch.content.size + 1) + 5

RECURSIVE DocBytes(_)
DocBytes(d) == IF d = <<>> THEN 0 ELSE ChunkBytes(Head(d)) + DocBytes(Tail(d))

\* the text of a document of the tool, whole or cut where a flush ended
DocText(d, utf8) ==
  [id |-> "document", size |-> DocBytes(d), utf8 |-> utf8, doc |-> d]

----------------------------------------------------------------------------
(* Filesystems and arguments the runs are checked on *)

\* default of --max-size
DefaultMaxSize == 102400

MaxSizes == {DefaultMaxSize, 49}

ATexts == {Text("A", 50, TRUE), Text("A_binary", 50, FALSE),
           Text("A_max", DefaultMaxSize, TRUE)}

BaseFS ==
  (<<"t">> :> Dir) @@ (<<"ext">> :> Dir)
  @@ (<<"ext", "e.txt">> :> File(Text("E", 2, TRUE)))
  @@ (<<"ctx.md">> :> File(Text("CTX", 30, TRUE)))

ExtrasFS ==
  (<<"t", "b.py">> :> File(Text("B", 200000, TRUE)))
  @@ (<<"t", "secret.txt">> :> File(Text("S", 10, TRUE)))

SubFS ==
  (<<"t", "sub">> :> Dir)
  @@ (<<"t", "sub", "a.txt">> :> File(Text("SA", 3, TRUE)))
  @@ (<<"t", "sub", "b.txt">> :> File(Text("SB", 3, TRUE)))

\* what the target holds besides a.py
Layouts == {<<>>, ExtrasFS, ExtrasFS @@ SubFS}

IgnoreFS(id) == <<"t", ".context.ignore">> :> File(Text(id, IgnoreSize[id], TRUE))

LinkTargets == {<<"t", "a.py">>, <<"ext">>, <<"t">>}

Listings ==
  { <<"a.py", "b.py", "secret.txt", ".context.ignore", "sub", "lnk", "a.txt",
      "b.txt", "e.txt", "context.md", "ctx.md", "ext", "t">>,
    <<"b.txt", "a.py", "sub", "secret.txt", "lnk", "context.md",
      ".context.ignore", "b.py", "a.txt", "e.txt", "t", "ext", "ctx.md">> }

Outputs == {<<"t", "context.md">>, <<"context.md">>}

\* --context-file: not given, an existing file, a file that does not exist
ContextFiles == {<<>>, <<"ctx.md">>, <<"missing.md">>}

NoTree == TreeNode("", FALSE)

Init ==
  /\ \E a \in ATexts, layout \in Layouts,
        ign \in {"none"} \cup DOMAIN IgnoreLines,
        lnk \in {<<>>} \cup LinkTargets :
       fs = (<<"t", "a.py">> :> File(a))
            @@ layout
            @@ (IF ign # "none" THEN IgnoreFS(ign) ELSE <<>>)
            @@ (IF lnk # <<>> THEN <<"t", "lnk">> :> Link(lnk) ELSE <<>>)
            @@ BaseFS
  /\ fs0 = fs
  /\ \E output \in Outputs, max_size \in MaxSizes,
        context_file \in ContextFiles, listing \in Listings :
       cfg = [output |-> output, max_size |-> max_size,
              context_file |-> context_file,
              ignore_file |-> <<"t", ".context.ignore">>,
              listing |-> listing]
  /\ pc = "start"
  /\ ignore_spec = <<>>
  /\ tree_root = NoTree
  /\ included_files = <<>>
  /\ pending = <<>>
  /\ out_file = <<>>
  /\ skipped = {}
  /\ run = 1
  /\ docs = <<>>

----------------------------------------------------------------------------
(* The steps of main() *)

\* PathSpec.from_lines raises on a line that is no git pattern
from_lines(lines) ==
  IF \E i \in 1..Len(lines) : lines[i].kind = "invalid"
    THEN [ok |-> FALSE, spec |-> <<>>]
    ELSE [ok |-> TRUE, spec |-> lines]

\* load the ignore patterns; a missing rules file gives the empty PathSpec
LoadIgnore ==
  /\ pc = "start"
  /\ LET loaded ==
           IF exists(fs, cfg.ignore_file)
             THEN from_lines(IgnoreLines[fs[Stat(fs, cfg.ignore_file).real].content.id])
             ELSE [ok |-> TRUE, spec |-> <<>>]
     IN /\ ignore_spec' = loaded.spec
        /\ pc' = IF loaded.ok THEN "loaded" ELSE "failed"
  /\ UNCHANGED <<fs, fs0, cfg, tree_root, included_files, pending, out_file,
                 skipped, run, docs>>

BuildTree ==
  /\ pc = "loaded"
  /\ included_files' = <<>>
  /\ tree_root' = build_directory_tree(fs, target_dir, ignore_spec,
                                       cfg.max_size, cfg.listing)
  /\ pc' = "built"
  /\ UNCHANGED <<fs, fs0, cfg, ignore_spec, pending, out_file, skipped, run,
                 docs>>

CollectFiles ==
  /\ pc = "built"
  /\ included_files' = Collect(fs, ignore_spec, cfg.max_size, cfg.listing)
  /\ pc' = "collected"
  /\ UNCHANGED <<fs, fs0, cfg, ignore_spec, tree_root, pending, out_file,
                 skipped, run, docs>>

\* what the output holds on disk: d once flushed
WithOutput(f, path, d) ==
  [p \in DOMAIN f \cup {path} |-> IF p = path THEN File(DocText(d, TRUE)) ELSE f[p]]

\* open(args.output, 'w') creates the file or truncates it
OpenOutput ==
  /\ pc = "collected"
  /\ fs' = WithOutput(fs, cfg.output, <<>>)
  /\ out_file' = <<>>
  /\ pc' = "opened"
  /\ UNCHANGED <<fs0, cfg, ignore_spec, tree_root, included_files, pending,
                 skipped, run, docs>>

\* the context overview; opening a missing context file raises, and leaving
\* the with block closes the output
WriteContext ==
  /\ pc = "opened"
  /\ IF cfg.context_file = <<>>
       THEN /\ pc' = "context"
            /\ UNCHANGED <<fs, out_file>>
       ELSE IF exists(fs, cfg.context_file)
         THEN /\ out_file' = Append(out_file,
                    ContextChunk(fs[Stat(fs, cfg.context_file).real].content))
              /\ pc' = "context"
              /\ UNCHANGED fs
         ELSE /\ fs' = WithOutput(fs, cfg.output, out_file)
              /\ pc' = "failed"
              /\ UNCHANGED out_file
  /\ UNCHANGED <<fs0, cfg, ignore_spec, tree_root, included_files, pending,
                 skipped, run, docs>>

\* the directory tree section and the heading of the file contents section
WriteTree ==
  /\ pc = "context"
  /\ out_file' = out_file \o <<TreeChunk(format_tree(tree_root, <<>>, TRUE)),
                               ContentsHeader>>
  /\ pending' = SortPaths(included_files)
  /\ pc' = "contents"
  /\ UNCHANGED <<fs, fs0, cfg, ignore_spec, tree_root, included_files,
                 skipped, run, docs>>

\* path.read_text(): the text of the file; of the output itself, which is
\* open for writing, whatever part of it has been flushed so far
ReadTexts(path) ==
  IF path = cfg.output
    THEN {DocText(SubSeq(out_file, 1, k), u) : k \in 0..Len(out_file), u \in BOOLEAN}
    ELSE {fs[Stat(fs, path).real].content}

\* the iteration without the except clause: the text is written as read
WriteFile_NoDecodeGuard ==
  /\ pc = "contents"
  /\ pending # <<>>
  /\ LET path == Head(pending)
         rel_path == relative_to(path, target_dir)
     IN \E content \in ReadTexts(path) :
          out_file' = Append(out_file,
              FileChunk(rel_path, Suffix(path[Len(path)]), content))
  /\ pending' = Tail(pending)
  /\ UNCHANGED <<fs, fs0, cfg, pc, ignore_spec, tree_root, included_files,
                 skipped, run, docs>>

\* one iteration of the loop over sorted(included_files)
WriteFile ==
  /\ pc = "contents"
  /\ pending # <<>>
  /\ LET path == Head(pending)
         rel_path == relative_to(path, target_dir)
     IN \E content \in ReadTexts(path) :
          IF content.utf8
            THEN /\ out_file' = Append(out_file,
                       FileChunk(rel_path, Suffix(path[Len(path)]), content))
                 /\ UNCHANGED skipped
            ELSE /\ skipped' = skipped \cup {path}
                 /\ UNCHANGED out_file
  /\ pending' = Tail(pending)
  /\ UNCHANGED <<fs, fs0, cfg, pc, ignore_spec, tree_root, included_files,
                 run, docs>>

\* the loop is over: the output is closed and main() returns
Finish ==
  /\ pc = "contents"
  /\ pending = <<>>
  /\ fs' = WithOutput(fs, cfg.output, out_file)
  /\ docs' = Append(docs, out_file)
  /\ pc' = "done"
  /\ UNCHANGED <<fs0, cfg, ignore_spec, tree_root, included_files, pending,
                 out_file, skipped, run>>

\* the tool is run again with the same arguments
Rerun ==
  /\ pc \in {"done", "failed"}
  /\ run < MaxRuns
  /\ run' = run + 1
  /\ fs0' = fs
  /\ pc' = "start"
  /\ ignore_spec' = <<>>
  /\ tree_root' = NoTree
  /\ included_files' = <<>>
  /\ pending' = <<>>
  /\ out_file' = <<>>
  /\ skipped' = {}
  /\ UNCHANGED <<fs, cfg, docs>>

Next ==
  \/ LoadIgnore
  \/ BuildTree
  \/ CollectFiles
  \/ OpenOutput
  \/ WriteContext
  \/ WriteTree
  \/ WriteFile
  \/ Finish
  \/ Rerun

Spec == Init /\ [][Next]_vars

TypeOK ==
  /\ pc \in {"start", "loaded", "built", "collected", "opened", "context",
             "contents", "done", "failed"}
  /\ run \in 1..MaxRuns
  /\ Len(docs) <= run

----------------------------------------------------------------------------
(* Vocabulary of the properties *)

\* the entries on disk below the target when the run started
UnderTarget == {p \in DOMAIN fs0 : Len(p) > 1 /\ p[1] = "t"}

\* the node the tree holds for a relative path, NoTree when it holds none
RECURSIVE NodeAt(_, _)
NodeAt(node, rel) ==
  IF rel = <<>> THEN node
  ELSE LET hits == {i \in 1..Len(node.children) : node.children[i].name = Head(rel)}
       IN IF hits = {} THEN NoTree
          ELSE NodeAt(node.children[CHOOSE i \in hits : TRUE], Tail(rel))

RECURSIVE TreeDepth(_)
TreeDepth(node) ==
  IF node.children = <<>> THEN 0
  ELSE 1 + TreeDepth(node.children[
             CHOOSE i \in 1..Len(node.children) :
               \A j \in 1..Len(node.children) :
                 TreeDepth(node.children[j]) <= TreeDepth(node.children[i])])

RECURSIVE TreeSize(_)
RECURSIVE ForestSize(_)
ForestSize(nodes) ==
  IF nodes = <<>> THEN 0 ELSE TreeSize(Head(nodes)) + ForestSize(Tail(nodes))
TreeSize(node) == 1 + ForestSize(node.children)

Range(s) == {s[i] : i \in 1..Len(s)}

TreeBuilt == tree_root # NoTree
Collected == pc \in {"collected", "opened", "context", "contents", "done"}

\* the diagram and the blocks of the file-contents section, as written
WrittenLines ==
  LET hits == {i \in 1..Len(out_file) : out_file[i].tag = "structure"}
  IN IF hits = {} THEN <<>> ELSE out_file[CHOOSE i \in hits : TRUE].lines

Blocks == SelectSeq(out_file, LAMBDA ch : ch.tag = "file")
BlockPaths == [i \in 1..Len(Blocks) |-> Blocks[i].path]

LineOf(name, depth) ==
  {i \in 1..Len(WrittenLines) :
     WrittenLines[i].name = name /\ Len(WrittenLines[i].prefix) = depth}

----------------------------------------------------------------------------
(* C1: the documented scenario *)

\* the target holds exactly a.py (50 bytes of text), b.py (200000 bytes),
\* secret.txt (10 bytes) and .context.ignore with the one line secret.txt,
\* and the maximum size is 102400
C1_Scenario ==
  /\ UnderTarget = {<<"t", "a.py">>, <<"t", "b.py">>, <<"t", "secret.txt">>,
                    <<"t", ".context.ignore">>}
  /\ fs0[<<"t", "a.py">>].content = Text("A", 50, TRUE)
  /\ fs0[<<"t", "b.py">>].content.size = 200000
  /\ fs0[<<"t", "secret.txt">>].content.size = 10
  /\ fs0[<<"t", ".context.ignore">>].content.id = "IGN_SECRET"
  /\ cfg.max_size = 102400

\* the diagram of the scenario: the root and its four entries, b.py marked
\* (size exceeded), secret.txt marked (ignored), the two others unmarked
C1_Tree ==
  /\ Len(WrittenLines) = 5
  /\ \E i \in LineOf("b.py", 1) : WrittenLines[i].reasons = <<"size exceeded">>
  /\ \E i \in LineOf("secret.txt", 1) : WrittenLines[i].reasons = <<"ignored">>
  /\ \E i \in LineOf("a.py", 1) : WrittenLines[i].reasons = <<>>
  /\ \E i \in LineOf(".context.ignore", 1) : WrittenLines[i].reasons = <<>>

\* C1 as stated: in the scenario the file-contents section holds the block of
\* a.py and no block of any other file of the directory
C1_Original ==
  (pc = "done" /\ C1_Scenario) =>
     (C1_Tree /\ BlockPaths = << <<"a.py">> >>)

\* C1 as amended: in the scenario the tree shows the four entries with b.py
\* marked (size exceeded) and secret.txt marked (ignored), and the
\* file-contents section holds exactly two blocks, that of .context.ignore
\* (the rules file is itself an unignored file of the target) and then that of
\* a.py; b.py and secret.txt get none
C1_Amended ==
  (pc = "done" /\ C1_Scenario) =>
     /\ C1_Tree
     /\ BlockPaths = << <<".context.ignore">>, <<"a.py">> >>
     /\ Blocks[1].content = fs0[<<"t", ".context.ignore">>].content
     /\ Blocks[2].content = fs0[<<"t", "a.py">>].content

C1_Witness == pc = "done" /\ C1_Scenario /\ Len(Blocks) = 2

----------------------------------------------------------------------------
(* C2: idempotence of a run *)

\* C2: the documents written by successive runs with the same arguments, on a
\* filesystem nothing but the tool itself changes, are identical
C2_Idempotent ==
  \A i \in 1..Len(docs), j \in 1..Len(docs) : docs[i] = docs[j]

----------------------------------------------------------------------------
(* C3: a configuration error leaves the output as it was *)

\* C3: when the run has failed (invalid ignore patterns, or a context file
\* that does not exist) the output destination is as it was before the run:
\* neither created nor truncated nor partially written
C3_OutputUntouched ==
  pc = "failed" =>
     /\ (cfg.output \in DOMAIN fs) = (cfg.output \in DOMAIN fs0)
     /\ cfg.output \in DOMAIN fs => fs[cfg.output] = fs0[cfg.output]

----------------------------------------------------------------------------
(* C10: the tree is no deeper than the directory structure on disk *)

\* depth of the directory structure below the target
DiskDepth ==
  LET depths == {Len(p) - 1 : p \in UnderTarget} \cup {0}
  IN CHOOSE d \in depths : \A e \in depths : e <= d

\* C10: the tree the builder returns has a node for each entry on disk below
\* the target and is no deeper than the directory structure on disk, also
\* when the target holds symbolic links to directories
C10_DepthBounded ==
  TreeBuilt =>
     /\ \A p \in UnderTarget : NodeAt(tree_root, relative_to(p, target_dir)) # NoTree
     /\ TreeDepth(tree_root) <= DiskDepth

----------------------------------------------------------------------------
(* C7: without a rules file nothing is ignored and every eligible file is
   collected *)

\* the paths of the file nodes the tree shows below a directory path
RECURSIVE ShownFiles(_, _)
ShownFiles(node, path) ==
  IF ~node.is_dir THEN {path}
  ELSE UNION {ShownFiles(node.children[i], Append(path, node.children[i].name)) :
                i \in 1..Len(node.children)}

RECURSIVE AnyIgnored(_)
AnyIgnored(node) ==
  node.ignored \/ \E i \in 1..Len(node.children) : AnyIgnored(node.children[i])

\* C7: with no rules file at the configured path the load does not fail, no
\* node is marked ignored, and every regular file the tree shows below the
\* target that is no symbolic link and no larger than max_size is collected
C7_AllEligibleCollected ==
  (~exists(fs0, cfg.ignore_file)) =>
     /\ pc = "failed" => tree_root # NoTree
     /\ ~AnyIgnored(tree_root)
     /\ Collected =>
          \A p \in ShownFiles(tree_root, target_dir) :
             (is_file(fs0, p) /\ ~is_symlink(fs0, p)
              /\ st_size(fs0, p) <= cfg.max_size)
               => p \in Range(included_files)

----------------------------------------------------------------------------
(* C4: the size filter *)

RenderedLines == format_tree(tree_root, <<>>, TRUE)

\* C4: every regular file below the target larger than max_size is a file
\* node of the tree with size_exceeded set and is not collected; a file of at
\* most max_size bytes (max_size itself included) is not flagged and is
\* collected unless it is ignored; no directory is rendered as size exceeded;
\* in the finished document no file larger than max_size has a block
C4_SizeFilter ==
  /\ pc = "collected" =>
       /\ \A p \in UnderTarget :
            fs0[p].kind = "file" =>
              LET rel == relative_to(p, target_dir)
                  node == NodeAt(tree_root, rel)
                  size == fs0[p].content.size
              IN /\ node # NoTree /\ ~node.is_dir
                 /\ size > cfg.max_size =>
                      node.size_exceeded /\ p \notin Range(included_files)
                 /\ size <= cfg.max_size =>
                      /\ ~node.size_exceeded
                      /\ ~match_file(ignore_spec, rel) => p \in Range(included_files)
       /\ \A line \in Range(RenderedLines) :
            line.is_dir => "size exceeded" \notin Range(line.reasons)
  /\ pc = "done" =>
       \A rel \in Range(BlockPaths) :
          LET p == target_dir \o rel
          IN p \in UnderTarget => fs0[p].content.size <= cfg.max_size

\* a run that collected a file of exactly max_size bytes and flagged a larger
\* one
C4_Witness ==
  /\ pc = "collected"
  /\ fs0[<<"t", "a.py">>].content.size = cfg.max_size
  /\ <<"t", "a.py">> \in Range(included_files)
  /\ <<"t", "b.py">> \in UnderTarget
  /\ NodeAt(tree_root, <<"b.py">>).size_exceeded

----------------------------------------------------------------------------
(* C5: the ignore filter marks, it does not prune *)

\* C5: every entry below the target has its node in the tree, directories as
\* directory nodes also below an ignored directory; an entry whose relative
\* path the rules match has ignored set and is rendered (ignored); a matched
\* file is not collected, whatever its size, and in the finished document no
\* matched path has a block
C5_IgnoreFilter ==
  /\ pc = "collected" =>
       \A p \in UnderTarget :
          LET rel == relative_to(p, target_dir)
              node == NodeAt(tree_root, rel)
          IN /\ node # NoTree
             /\ fs0[p].kind = "dir" => node.is_dir
             /\ fs0[p].kind = "file" => ~node.is_dir
             /\ match_file(ignore_spec, rel) =>
                  /\ node.ignored
                  /\ "ignored" \in Range(Reasons(node))
                  /\ p \notin Range(included_files)
  /\ pc = "done" =>
       \A rel \in Range(BlockPaths) : ~match_file(ignore_spec, rel)

\* a run with an ignored directory whose files are in the tree, one of them
\* ignored too, and with an ignored file larger than max_size
C5_Witness ==
  /\ pc = "collected"
  /\ NodeAt(tree_root, <<"sub">>).ignored
  /\ NodeAt(tree_root, <<"sub", "b.txt">>).ignored
  /\ NodeAt(tree_root, <<"sub", "a.txt">>) # NoTree
  /\ NodeAt(tree_root, <<"b.py">>).ignored
  /\ NodeAt(tree_root, <<"b.py">>).size_exceeded

----------------------------------------------------------------------------
(* C6: no symbolic link is collected *)

\* C6: every collected path is an entry of the filesystem that is a regular
\* file, not a directory and not a symbolic link, and no component of the
\* path is a symbolic link
C6_NoSymlinkCollected ==
  \A p \in Range(included_files) :
     /\ p \in DOMAIN fs0
     /\ fs0[p].kind = "file"
     /\ \A k \in 1..Len(p) : fs0[SubSeq(p, 1, k)].kind # "link"

\* a run over a target with a link to an eligible file: the file is collected,
\* the link is not
C6_Witness ==
  /\ pc = "collected"
  /\ <<"t", "lnk">> \in UnderTarget
  /\ fs0[<<"t", "lnk">>].to = <<"t", "a.py">>
  /\ <<"t", "a.py">> \in Range(included_files)
  /\ <<"t", "lnk">> \notin Range(included_files)

----------------------------------------------------------------------------
(* C8: order of the siblings in the diagram *)

\* C8: the diagram has one line per node of the tree; of two siblings the one
\* rendered first is a directory and the other a file, or they are of one
\* kind and the first has the greater name; the last sibling, and only the
\* last, has the connector of a last entry; sub, b.py, a.py come in this order
C8_SiblingOrder ==
  pc = "done" =>
     LET lines == WrittenLines
         sibs == {ij \in (1..Len(lines)) \X (1..Len(lines)) :
                    /\ ij[1] < ij[2]
                    /\ Len(lines[ij[1]].prefix) = Len(lines[ij[2]].prefix)
                    /\ \A k \in ij[1]..ij[2] :
                         Len(lines[k].prefix) >= Len(lines[ij[1]].prefix)}
     IN /\ Len(lines) = TreeSize(tree_root)
        /\ \A ij \in sibs :
             \/ lines[ij[1]].is_dir /\ ~lines[ij[2]].is_dir
             \/ /\ lines[ij[1]].is_dir = lines[ij[2]].is_dir
                /\ SeqLess(NameChars[lines[ij[2]].name], NameChars[lines[ij[1]].name])
        /\ \A i \in 1..Len(lines) :
             lines[i].last = ~(\E ij \in sibs : ij[1] = i)
        /\ \A s \in LineOf("sub", 1), b \in LineOf("b.py", 1), a \in LineOf("a.py", 1) :
             s < b /\ b < a

\* a diagram of a directory whose children a.py, sub, b.py were appended in
\* another order than the rendered one
C8_Witness ==
  /\ pc = "done"
  /\ LineOf("sub", 1) # {} /\ LineOf("b.py", 1) # {} /\ LineOf("a.py", 1) # {}
  /\ tree_root.children[1].name = "a.py"
  /\ \E i \in 1..Len(tree_root.children) :
        /\ tree_root.children[i].name = "sub"
        /\ Len(tree_root.children[i].children) = 2

----------------------------------------------------------------------------
(* C9: a file that does not decode is skipped, the others are written *)

\* C9: a run never fails in the loop over the files; when it is done, every
\* collected file is an unmarked node of the tree; the files whose read
\* raised the decode error, and only they, have no block; a file whose bytes
\* are not UTF-8 is among them, every other file has the block of its text
\* (the output itself, read while it is written, of what it held then); the
\* blocks come in ascending order of path and are of collected files only
C9_DecodeFailureSkipped ==
  /\ pc = "failed" => skipped = {}
  /\ pc = "done" =>
       LET blocks == Blocks
       IN /\ \A p \in Range(included_files) :
               LET rel == relative_to(p, target_dir)
                   mine == {i \in 1..Len(blocks) : blocks[i].path = rel}
               IN /\ Reasons(NodeAt(tree_root, rel)) = <<>>
                  /\ (p \in skipped) = (mine = {})
                  /\ p # cfg.output =>
                       /\ (p \in skipped) = ~fs0[p].content.utf8
                       /\ \A i \in mine : blocks[i].content = fs0[p].content
          /\ \A i \in 1..Len(blocks) :
               /\ target_dir \o blocks[i].path \in Range(included_files)
               /\ \A j \in 1..Len(blocks) :
                    i < j => PathLess(blocks[i].path, blocks[j].path)

\* a finished run that collected a file that does not decode and wrote the
\* blocks of two others
C9_Witness ==
  /\ pc = "done"
  /\ <<"t", "a.py">> \in Range(included_files)
  /\ ~fs0[<<"t", "a.py">>].content.utf8
  /\ Len(Blocks) >= 2

====
